---- MODULE Spec2Model ----
(***************************************************************************)
(* Model of the session-authenticated todo application: the user and task  *)
(* tables (app/models.py), the signed-cookie session of each browser, and  *)
(* one action per request handler of app/routes/auth.py and                *)
(* app/routes/tasks.py, plus the table-level administration commands.      *)
(*                                                                         *)
(* Strings are sequences of one-character strings so that strip() and      *)
(* len() are computed.  An optional value (Python None) is the empty       *)
(* sequence <<>>; a present value x is <<x>>.                               *)
(***************************************************************************)
EXTENDS Integers, Sequences, FiniteSets, TLC

----------------------------------------------------------------------------
(* Bounds of the model *)

MaxUsers == 2
MaxTasks == 2
MaxSalt == 1

(* Program constants *)

MinUsernameLen == 3
MaxUsernameLen == 50
MinPasswordLen == 6
MaxTitleLen == 200

----------------------------------------------------------------------------
(* Strings *)

None == <<>>
Some(x) == <<x>>

Rep(c, n) == [i \in 1..n |-> c]

(* the form of a request whose handler answers before reading it *)
NoForm == <<>>

RECURSIVE lstrip(_)
lstrip(s) == IF s = <<>> THEN s
             ELSE IF s[1] = " " THEN lstrip(Tail(s)) ELSE s

RECURSIVE rstrip(_)
rstrip(s) == IF s = <<>> THEN s
             ELSE IF s[Len(s)] = " " THEN rstrip(SubSeq(s, 1, Len(s) - 1)) ELSE s

strip(s) == rstrip(lstrip(s))

----------------------------------------------------------------------------
(* Credential store: werkzeug's salted one-way hash.  The digest is an     *)
(* injective function of (salt, plaintext); verification recomputes it.    *)

Salts == 1..MaxSalt

generate_password_hash(password, salt) ==
    [method |-> "scrypt", salt |-> salt, digest |-> <<salt, password>>]

(* a verification that looks at the salt only *)
check_salt_only(pwhash, password) == pwhash.digest[1] = pwhash.salt

check_password_hash(pwhash, password) ==
    pwhash.digest = <<pwhash.salt, password>>

----------------------------------------------------------------------------
(* State *)

VARIABLES
    users,      \* table user: set of rows [id, username, password]
    tasks,      \* table task: set of rows [id, title, description, status, user_id]
    session,    \* per browser: None, or Some([user_id, username, permanent])
    pend,       \* per browser: None, or Some(request in flight between two database statements)
    resp        \* the response of the request just handled, until the browser has it

vars == <<users, tasks, session, pend, resp>>

Clients == {1, 2}

Ids(rows) == {r.id : r \in rows}

MaxOf(S) == CHOOSE m \in S : \A n \in S : n <= m

(* SQLite INTEGER PRIMARY KEY without AUTOINCREMENT: largest rowid plus one *)
NextId(rows) == IF rows = {} THEN 1 ELSE MaxOf(Ids(rows)) + 1

Flash(message, args, category) ==
    [message |-> message, args |-> args, category |-> category]

Redirect(c, op, arg, to, flashes) ==
    [client |-> c, op |-> op, arg |-> arg, kind |-> "redirect", to |-> to,
     flashes |-> flashes, data |-> <<>>]

Render(c, op, arg, template, flashes, data) ==
    [client |-> c, op |-> op, arg |-> arg, kind |-> "render", to |-> template,
     flashes |-> flashes, data |-> data]

(* no response is on its way to a browser *)
Idle ==
    [client |-> 0, op |-> "none", arg |-> <<>>, kind |-> "none", to |-> "none",
     flashes |-> <<>>, data |-> <<>>]

Init ==
    /\ users = {}
    /\ tasks = {}
    /\ session = [c \in Clients |-> None]
    /\ pend = [c \in Clients |-> None]
    /\ resp = Idle

----------------------------------------------------------------------------
(* Session manager *)

LoggedIn(c) == session[c] # None

SessionUserId(c) == session[c][1].user_id

(* a refusal that lets the request through to the login page unannounced *)
login_required_silent(c, op, arg) ==
    /\ ~LoggedIn(c)
    /\ resp' = Redirect(c, op, arg, "auth.login", <<>>)
    /\ UNCHANGED <<users, tasks, session, pend>>

(* The decorator's refusal: flash a warning, redirect to the login page,   *)
(* and do not call the wrapped handler.                                    *)
login_required(c, op, arg) ==
    /\ ~LoggedIn(c)
    /\ resp' = Redirect(c, op, arg, "auth.login",
                 <<Flash("Please login to access this page", <<>>, "warning")>>)
    /\ UNCHANGED <<users, tasks, session, pend>>

----------------------------------------------------------------------------
(* Request inputs *)

Uabc == <<"a", "b", "c">>
UAbc == <<"A", "b", "c">>
P1 == Rep("a", 6)
P2 == Rep(" ", 6)

RegForm(u, p, cp) == [username |-> u, password |-> p, confirm_password |-> cp]

RegisterForms ==
    { RegForm(<<>>, P1, <<>>),
      RegForm(<<" ">>, P1, P1),
      RegForm(Uabc, <<>>, <<>>),
      RegForm(<<"a", "b">>, P1, P1),
      RegForm(Rep("a", MaxUsernameLen + 1), P1, P1),
      RegForm(Uabc, Rep("a", MinPasswordLen - 1), <<>>),
      RegForm(Uabc, P1, P2),
      RegForm(Uabc, P1, <<>>),
      RegForm(<<" ">> \o Uabc \o <<" ">>, P1, P1),
      RegForm(UAbc, P2, P2) }

LoginForm(u, p, n) == [username |-> u, password |-> p, next |-> n]

LoginForms ==
    { LoginForm(Uabc, <<>>, None),
      LoginForm(Uabc, P1, None),
      LoginForm(Uabc, P2, None),
      LoginForm(<<" ">> \o Uabc, P1, Some("/tasks/filter/Done")),
      LoginForm(UAbc, P1, None),
      LoginForm(UAbc, P2, None) }

----------------------------------------------------------------------------
(* a lookup that folds case *)
Lower(ch) == IF ch = "A" THEN "a" ELSE ch

UserByNameNoCase(username) ==
    {u \in users : [i \in 1..Len(u.username) |-> Lower(u.username[i])]
                      = [i \in 1..Len(username) |-> Lower(username[i])]}

(* User.query.filter_by(username=username).first(): the column compares  *)
(* exactly, so the match is case-sensitive                                *)
UserByName(username) == {u \in users : u.username = username}

----------------------------------------------------------------------------
(* auth.register *)

register(c, method, form) ==
    LET username == strip(form.username)
        password == form.password
        confirm_password == form.confirm_password
        arg == [method |-> method, form |-> form]
        back(message) == Redirect(c, "register", arg, "auth.register",
                                  <<Flash(message, <<>>, "danger")>>)
        existing_user == UserByName(username)
        new_user(salt) == [id |-> NextId(users), username |-> username,
                           password |-> generate_password_hash(password, salt)]
        unread == [method |-> method, form |-> NoForm]
    IN
    IF LoggedIn(c) THEN
        /\ resp' = Redirect(c, "register", unread, "tasks.view_task", <<>>)
        /\ UNCHANGED <<users, tasks, session, pend>>
    ELSE IF method = "GET" THEN
        /\ resp' = Render(c, "register", unread, "register.html", <<>>, <<>>)
        /\ UNCHANGED <<users, tasks, session, pend>>
    ELSE IF username = <<>> THEN
        /\ resp' = back("Username is required")
        /\ UNCHANGED <<users, tasks, session, pend>>
    ELSE IF password = <<>> THEN
        /\ resp' = back("Password is required")
        /\ UNCHANGED <<users, tasks, session, pend>>
    ELSE IF Len(username) < MinUsernameLen THEN
        /\ resp' = back("Username must be at least 3 characters long")
        /\ UNCHANGED <<users, tasks, session, pend>>
    ELSE IF Len(username) > MaxUsernameLen THEN
        /\ resp' = back("Username must be less than 50 characters")
        /\ UNCHANGED <<users, tasks, session, pend>>
    ELSE IF Len(password) < MinPasswordLen THEN
        /\ resp' = back("Password must be at least 6 characters long")
        /\ UNCHANGED <<users, tasks, session, pend>>
    ELSE IF confirm_password # <<>> /\ password # confirm_password THEN
        /\ resp' = back("Passwords do not match")
        /\ UNCHANGED <<users, tasks, session, pend>>
    ELSE IF existing_user # {} THEN
        /\ resp' = back("Username already exists. Please choose a different one.")
        /\ UNCHANGED <<users, tasks, session, pend>>
    ELSE
        \/ /\ resp' = back("An error occurred during registration. Please try again.")
           /\ UNCHANGED <<users, tasks, session, pend>>
        \/ /\ NextId(users) <= MaxUsers
           /\ \E salt \in Salts : users' = users \cup {new_user(salt)}
           /\ resp' = Redirect(c, "register", arg, "auth.login",
                        <<Flash("Registration successful! Please login.", <<>>, "success")>>)
           /\ UNCHANGED <<tasks, session, pend>>

----------------------------------------------------------------------------
(* auth.login *)

(* a login that takes any password of a stored username *)
login_any_password(c, method, form) ==
    LET username == strip(form.username)
        password == form.password
        arg == [method |-> method, form |-> form]
        found == UserByName(username)
        unread == [method |-> method, form |-> NoForm]
    IN
    IF LoggedIn(c) THEN
        /\ resp' = Redirect(c, "login", unread, "tasks.view_task", <<>>)
        /\ UNCHANGED <<users, tasks, session, pend>>
    ELSE IF method = "GET" THEN
        /\ resp' = Render(c, "login", unread, "login.html", <<>>, <<>>)
        /\ UNCHANGED <<users, tasks, session, pend>>
    ELSE IF username = <<>> \/ password = <<>> THEN
        /\ resp' = Redirect(c, "login", arg, "auth.login",
                     <<Flash("Username and password are required", <<>>, "danger")>>)
        /\ UNCHANGED <<users, tasks, session, pend>>
    ELSE
        \/ /\ resp' = Render(c, "login", arg, "login.html",
                        <<Flash("An error occurred during login. Please try again.", <<>>,
                                "danger")>>, <<>>)
           /\ UNCHANGED <<users, tasks, session, pend>>
        \/ IF found # {} THEN
               \E user \in found :
                   /\ session' = [session EXCEPT ![c] =
                            Some([user_id |-> user.id, username |-> user.username,
                                  permanent |-> TRUE])]
                   /\ resp' = Redirect(c, "login", arg,
                                IF form.next # None THEN form.next[1] ELSE "tasks.view_task",
                                <<Flash("Welcome back, {username}!", <<user.username>>,
                                        "success")>>)
                   /\ UNCHANGED <<users, tasks, pend>>
           ELSE
               /\ resp' = Render(c, "login", arg, "login.html",
                            <<Flash("Invalid username or password", <<>>, "danger")>>, <<>>)
               /\ UNCHANGED <<users, tasks, session, pend>>

login(c, method, form) ==
    LET username == strip(form.username)
        password == form.password
        arg == [method |-> method, form |-> form]
        found == UserByName(username)
        unread == [method |-> method, form |-> NoForm]
    IN
    IF LoggedIn(c) THEN
        /\ resp' = Redirect(c, "login", unread, "tasks.view_task", <<>>)
        /\ UNCHANGED <<users, tasks, session, pend>>
    ELSE IF method = "GET" THEN
        /\ resp' = Render(c, "login", unread, "login.html", <<>>, <<>>)
        /\ UNCHANGED <<users, tasks, session, pend>>
    ELSE IF username = <<>> \/ password = <<>> THEN
        /\ resp' = Redirect(c, "login", arg, "auth.login",
                     <<Flash("Username and password are required", <<>>, "danger")>>)
        /\ UNCHANGED <<users, tasks, session, pend>>
    ELSE
        \/ /\ resp' = Render(c, "login", arg, "login.html",
                        <<Flash("An error occurred during login. Please try again.", <<>>,
                                "danger")>>, <<>>)
           /\ UNCHANGED <<users, tasks, session, pend>>
        \/ IF \E user \in found : check_password_hash(user.password, password) THEN
               \E user \in found :
                   /\ check_password_hash(user.password, password)
                   /\ session' = [session EXCEPT ![c] =
                            Some([user_id |-> user.id, username |-> user.username,
                                  permanent |-> TRUE])]
                   /\ resp' = Redirect(c, "login", arg,
                                IF form.next # None THEN form.next[1] ELSE "tasks.view_task",
                                <<Flash("Welcome back, {username}!", <<user.username>>,
                                        "success")>>)
                   /\ UNCHANGED <<users, tasks, pend>>
           ELSE
               /\ resp' = Render(c, "login", arg, "login.html",
                            <<Flash("Invalid username or password", <<>>, "danger")>>, <<>>)
               /\ UNCHANGED <<users, tasks, session, pend>>

----------------------------------------------------------------------------
(* auth.logout *)

(* a logout that says goodbye and keeps the session *)
logout_keeps_session(c) ==
    \/ login_required(c, "logout", <<>>)
    \/ /\ LoggedIn(c)
       /\ resp' = Redirect(c, "logout", <<>>, "auth.login",
                    <<Flash("Goodbye, {username}! You have been logged out.",
                            <<session[c][1].username>>, "info")>>)
       /\ UNCHANGED <<users, tasks, session, pend>>

logout(c) ==
    \/ login_required(c, "logout", <<>>)
    \/ /\ LoggedIn(c)
       /\ session' = [session EXCEPT ![c] = None]
       /\ resp' = Redirect(c, "logout", <<>>, "auth.login",
                    <<Flash("Goodbye, {username}! You have been logged out.",
                            <<session[c][1].username>>, "info")>>)
       /\ UNCHANGED <<users, tasks, pend>>

----------------------------------------------------------------------------
(* auth.profile *)

UserById(user_id) == {u \in users : u.id = user_id}

profile(c) ==
    \/ login_required(c, "profile", <<>>)
    \/ /\ LoggedIn(c)
       /\ LET user == UserById(SessionUserId(c)) IN
          IF user = {} THEN
              resp' = Redirect(c, "profile", <<>>, "auth.logout",
                        <<Flash("User not found", <<>>, "danger")>>)
          ELSE
              resp' = Render(c, "profile", <<>>, "profile.html", <<>>,
                        [user |-> CHOOSE u \in user : TRUE])
       /\ UNCHANGED <<users, tasks, session, pend>>

----------------------------------------------------------------------------
(* auth.change_password *)

PwForm(cur, new, cp) ==
    [current_password |-> cur, new_password |-> new, confirm_password |-> cp]

ChangePasswordForms ==
    { PwForm(P1, P2, P2),
      PwForm(P1, Rep("a", MinPasswordLen - 1), Rep("a", MinPasswordLen - 1)),
      PwForm(P1, P2, <<>>) }

(* a change of password that does not ask for the current one *)
change_password_unverified(c, method, form) ==
    LET arg == [method |-> method, form |-> form]
        back(message) == Redirect(c, "change_password", arg, "auth.change_password",
                                  <<Flash(message, <<>>, "danger")>>)
    IN
    \/ login_required(c, "change_password", <<>>)
    \/ /\ LoggedIn(c)
       /\ LET user == UserById(SessionUserId(c)) IN
          IF method = "GET" THEN
              /\ resp' = Render(c, "change_password", [method |-> method, form |-> NoForm],
                                "change_password.html", <<>>, <<>>)
              /\ UNCHANGED users
          ELSE IF user = {} THEN
              /\ resp' = Redirect(c, "change_password", arg, "auth.logout",
                           <<Flash("User not found", <<>>, "danger")>>)
              /\ UNCHANGED users
          ELSE LET u == CHOOSE x \in user : TRUE IN
          IF Len(form.new_password) < MinPasswordLen THEN
              /\ resp' = back("New password must be at least 6 characters long")
              /\ UNCHANGED users
          ELSE IF form.new_password # form.confirm_password THEN
              /\ resp' = back("New passwords do not match")
              /\ UNCHANGED users
          ELSE
              \/ /\ resp' = back("An error occurred while changing password")
                 /\ UNCHANGED users
              \/ /\ \E salt \in Salts :
                        users' = (users \ {u}) \cup
                            {[u EXCEPT !.password =
                                  generate_password_hash(form.new_password, salt)]}
                 /\ resp' = Redirect(c, "change_password", arg, "tasks.view_task",
                              <<Flash("Password changed successfully!", <<>>, "success")>>)
       /\ UNCHANGED <<tasks, session, pend>>

change_password(c, method, form) ==
    LET arg == [method |-> method, form |-> form]
        back(message) == Redirect(c, "change_password", arg, "auth.change_password",
                                  <<Flash(message, <<>>, "danger")>>)
    IN
    \/ login_required(c, "change_password", <<>>)
    \/ /\ LoggedIn(c)
       /\ LET user == UserById(SessionUserId(c)) IN
          IF method = "GET" THEN
              /\ resp' = Render(c, "change_password", [method |-> method, form |-> NoForm],
                                "change_password.html", <<>>, <<>>)
              /\ UNCHANGED users
          ELSE IF user = {} THEN
              /\ resp' = Redirect(c, "change_password", arg, "auth.logout",
                           <<Flash("User not found", <<>>, "danger")>>)
              /\ UNCHANGED users
          ELSE LET u == CHOOSE x \in user : TRUE IN
          IF ~check_password_hash(u.password, form.current_password) THEN
              /\ resp' = back("Current password is incorrect")
              /\ UNCHANGED users
          ELSE IF Len(form.new_password) < MinPasswordLen THEN
              /\ resp' = back("New password must be at least 6 characters long")
              /\ UNCHANGED users
          ELSE IF form.new_password # form.confirm_password THEN
              /\ resp' = back("New passwords do not match")
              /\ UNCHANGED users
          ELSE
              \/ /\ resp' = back("An error occurred while changing password")
                 /\ UNCHANGED users
              \/ /\ \E salt \in Salts :
                        users' = (users \ {u}) \cup
                            {[u EXCEPT !.password =
                                  generate_password_hash(form.new_password, salt)]}
                 /\ resp' = Redirect(c, "change_password", arg, "tasks.view_task",
                              <<Flash("Password changed successfully!", <<>>, "success")>>)
       /\ UNCHANGED <<tasks, session, pend>>

----------------------------------------------------------------------------
(* Task store *)

(* a listing query without its owner filter *)
TasksOfAnyone(user_id) == tasks

(* Task.query.filter_by(user_id=user_id).all() *)
TasksOf(user_id) == {t \in tasks : t.user_id = user_id}

(* the lookup without its owner filter *)
OwnedTaskAnyOwner(task_id, user_id) == {t \in tasks : t.id = task_id}

(* Task.query.filter_by(id=task_id, user_id=user_id).first() *)
OwnedTask(task_id, user_id) == {t \in tasks : t.id = task_id /\ t.user_id = user_id}

(* the statistics of view_task and filter_tasks *)
Counts(rows) ==
    [total_tasks |-> Cardinality(rows),
     pending_tasks |-> Cardinality({t \in rows : t.status = "Pending"}),
     working_tasks |-> Cardinality({t \in rows : t.status = "Working"}),
     completed_tasks |-> Cardinality({t \in rows : t.status = "Done"})]

(* Task.toggle_status of models.py *)
Task_toggle_status(status) ==
    IF status = "Pending" THEN "Working"
    ELSE IF status = "Working" THEN "Done"
    ELSE "Pending"

(* a cycle that never reaches Done *)
toggled_skip(status) == IF status = "Pending" THEN "Working" ELSE "Pending"

(* the status cycle written out in the toggle_status route *)
toggled(status) ==
    IF status = "Pending" THEN "Working"
    ELSE IF status = "Working" THEN "Done"
    ELSE "Pending"

(* a row inserted without its status *)
NewTaskNoStatus(id, title, description, user_id) ==
    [id |-> id, title |-> title,
     description |-> IF description # <<>> THEN Some(description) ELSE None,
     status |-> "", user_id |-> user_id]

(* the row add_task inserts *)
NewTask(id, title, description, user_id) ==
    [id |-> id, title |-> title,
     description |-> IF description # <<>> THEN Some(description) ELSE None,
     status |-> "Pending", user_id |-> user_id]

(* a bulk DELETE that lost its status filter *)
MatchedAnyStatus(user_id, only_done) == {t \in tasks : t.user_id = user_id}

(* the rows of a bulk DELETE: filter_by(user_id=...) or                    *)
(* filter_by(user_id=..., status='Done')                                   *)
Matched(user_id, only_done) ==
    {t \in tasks : t.user_id = user_id /\ (only_done => t.status = "Done")}

TaskForm(t, d) == [title |-> t, description |-> d]

TaskForms ==
    { TaskForm(<<" ">>, <<"d">>),
      TaskForm(Rep("a", MaxTitleLen + 1), <<>>),
      TaskForm(<<" ", "a", " ">>, <<" ">>),
      TaskForm(<<"b">>, <<"d">>) }

TaskIds == 1..(MaxTasks + 1)

FilterInputs == {"Done", "All", "Bogus"}

----------------------------------------------------------------------------
(* tasks.view_task: the rendered rows are given as a set (their order by   *)
(* created_at is not modelled).                                            *)

view_task(c) ==
    \/ login_required(c, "view_task", <<>>)
    \/ /\ LoggedIn(c)
       /\ LET rows == TasksOf(SessionUserId(c)) IN
          resp' = Render(c, "view_task", <<>>, "tasks.html", <<>>,
                    [tasks |-> rows, counts |-> Counts(rows)])
       /\ UNCHANGED <<users, tasks, session, pend>>

----------------------------------------------------------------------------
(* tasks.add_task *)

add_task(c, form) ==
    LET title == strip(form.title)
        description == strip(form.description)
        done(flashes) == Redirect(c, "add_task", form, "tasks.view_task", flashes)
    IN
    \/ login_required(c, "add_task", <<>>)
    \/ /\ LoggedIn(c)
       /\ LET user_id == SessionUserId(c)
              new_task == NewTask(NextId(tasks), title, description, user_id)
          IN
          IF title = <<>> THEN
              /\ resp' = done(<<Flash("Task title is required", <<>>, "danger")>>)
              /\ UNCHANGED tasks
          ELSE IF Len(title) > MaxTitleLen THEN
              /\ resp' = done(<<Flash("Task title must be less than 200 characters", <<>>, "danger")>>)
              /\ UNCHANGED tasks
          ELSE
              \/ /\ resp' = done(<<Flash("Error adding task. Please try again.", <<>>,
                                         "danger")>>)
                 /\ UNCHANGED tasks
              \/ /\ NextId(tasks) <= MaxTasks
                 /\ tasks' = tasks \cup {new_task}
                 /\ resp' = done(<<Flash("Task added successfully!", <<>>, "success")>>)
       /\ UNCHANGED <<users, session, pend>>

----------------------------------------------------------------------------
(* tasks.edit_task *)

edit_task(c, task_id, method, form) ==
    LET arg == [task_id |-> task_id, method |-> method, form |-> form]
        title == strip(form.title)
        description == strip(form.description)
        again(message) == Redirect(c, "edit_task", arg, "tasks.edit_task",
                                   <<Flash(message, <<>>, "danger")>>)
    IN
    \/ login_required(c, "edit_task", <<>>)
    \/ /\ LoggedIn(c)
       /\ LET task == OwnedTask(task_id, SessionUserId(c))
              unread == [task_id |-> task_id, method |-> method, form |-> NoForm]
          IN
          IF task = {} THEN
              /\ resp' = Redirect(c, "edit_task", unread, "tasks.view_task",
                           <<Flash("Task not found or you do not have permission to edit it",
                                   <<>>, "danger")>>)
              /\ UNCHANGED tasks
          ELSE LET t == CHOOSE x \in task : TRUE IN
          IF method = "GET" THEN
              /\ resp' = Render(c, "edit_task", unread, "edit_task.html", <<>>, [task |-> t])
              /\ UNCHANGED tasks
          ELSE IF title = <<>> THEN
              /\ resp' = again("Task title is required")
              /\ UNCHANGED tasks
          ELSE IF Len(title) > MaxTitleLen THEN
              /\ resp' = again("Task title must be less than 200 characters")
              /\ UNCHANGED tasks
          ELSE
              \/ /\ resp' = again("Error updating task. Please try again.")
                 /\ UNCHANGED tasks
              \/ /\ tasks' = (tasks \ {t}) \cup
                        {[t EXCEPT !.title = title,
                                   !.description = IF description # <<>> THEN Some(description)
                                                   ELSE None]}
                 /\ resp' = Redirect(c, "edit_task", arg, "tasks.view_task",
                              <<Flash("Task updated successfully!", <<>>, "success")>>)
       /\ UNCHANGED <<users, session, pend>>

----------------------------------------------------------------------------
(* tasks.toggle_status: the outcome notice is flashed before the commit,   *)
(* so a failed commit adds its error notice to it.                         *)

toggle_status(c, task_id) ==
    LET done(flashes) == Redirect(c, "toggle_status", task_id, "tasks.view_task", flashes) IN
    \/ login_required(c, "toggle_status", <<>>)
    \/ /\ LoggedIn(c)
       /\ LET task == OwnedTask(task_id, SessionUserId(c)) IN
          IF task = {} THEN
              /\ resp' = done(<<Flash("Task not found or you do not have permission to modify it",
                                      <<>>, "danger")>>)
              /\ UNCHANGED tasks
          ELSE LET t == CHOOSE x \in task : TRUE
                   status == toggled(t.status)
                   notice == IF t.status = "Pending"
                                 THEN Flash("Task \"{title}\" is now in progress", <<t.title>>, "info")
                             ELSE IF t.status = "Working"
                                 THEN Flash("Task \"{title}\" completed!", <<t.title>>, "success")
                             ELSE Flash("Task \"{title}\" reopened", <<t.title>>, "info")
               IN
          \/ /\ resp' = done(<<notice, Flash("Error updating task status", <<>>, "danger")>>)
             /\ UNCHANGED tasks
          \/ /\ tasks' = (tasks \ {t}) \cup {[t EXCEPT !.status = status]}
             /\ resp' = done(<<notice>>)
       /\ UNCHANGED <<users, session, pend>>

----------------------------------------------------------------------------
(* tasks.delete_task *)

delete_task(c, task_id) ==
    LET done(flashes) == Redirect(c, "delete_task", task_id, "tasks.view_task", flashes) IN
    \/ login_required(c, "delete_task", <<>>)
    \/ /\ LoggedIn(c)
       /\ LET task == OwnedTask(task_id, SessionUserId(c)) IN
          IF task = {} THEN
              /\ resp' = done(<<Flash("Task not found or you do not have permission to delete it",
                                      <<>>, "danger")>>)
              /\ UNCHANGED tasks
          ELSE LET t == CHOOSE x \in task : TRUE IN
          \/ /\ resp' = done(<<Flash("Error deleting task. Please try again.", <<>>,
                                     "danger")>>)
             /\ UNCHANGED tasks
          \/ /\ tasks' = tasks \ {t}
             /\ resp' = done(<<Flash("Task \"{title}\" deleted successfully", <<t.title>>,
                                     "success")>>)
       /\ UNCHANGED <<users, session, pend>>

----------------------------------------------------------------------------
(* tasks.clear_tasks.  The handler issues two statements: a SELECT whose   *)
(* row count it reports, then a bulk DELETE whose own row count it         *)
(* discards.  ClearDelete is the second statement with the commit and the  *)
(* response; data.rowcount is what the DELETE removed.                     *)

ClearDelete(c, op, arg, user_id, task_count, only_done, message, error) ==
    LET matched == Matched(user_id, only_done) IN
    \/ /\ resp' = Redirect(c, op, arg, "tasks.view_task", <<Flash(error, <<>>, "danger")>>)
       /\ UNCHANGED tasks
    \/ /\ tasks' = tasks \ matched
       /\ resp' = [Redirect(c, op, arg, "tasks.view_task",
                      <<Flash(message, <<task_count>>, "success")>>)
                   EXCEPT !.data = [rowcount |-> Cardinality(matched)]]

clear_tasks(c) ==
    \/ login_required(c, "clear_tasks", <<>>)
    \/ /\ LoggedIn(c)
       /\ LET user_id == SessionUserId(c)
              tasks_to_delete == Matched(user_id, FALSE)
              task_count == Cardinality(tasks_to_delete)
          IN
          IF task_count = 0 THEN
              /\ resp' = Redirect(c, "clear_tasks", <<>>, "tasks.view_task",
                           <<Flash("No tasks to clear", <<>>, "info")>>)
              /\ UNCHANGED tasks
          ELSE
              ClearDelete(c, "clear_tasks", <<>>, user_id, task_count, FALSE,
                          "{task_count} task(s) cleared successfully!",
                          "Error clearing tasks. Please try again.")
       /\ UNCHANGED <<users, session, pend>>

----------------------------------------------------------------------------
(* tasks.clear_completed *)

clear_completed(c) ==
    \/ login_required(c, "clear_completed", <<>>)
    \/ /\ LoggedIn(c)
       /\ LET user_id == SessionUserId(c)
              completed_tasks == Matched(user_id, TRUE)
              task_count == Cardinality(completed_tasks)
          IN
          IF task_count = 0 THEN
              /\ resp' = Redirect(c, "clear_completed", <<>>, "tasks.view_task",
                           <<Flash("No completed tasks to clear", <<>>, "info")>>)
              /\ UNCHANGED tasks
          ELSE
              ClearDelete(c, "clear_completed", <<>>, user_id, task_count, TRUE,
                          "{task_count} completed task(s) cleared!",
                          "Error clearing completed tasks. Please try again.")
       /\ UNCHANGED <<users, session, pend>>

----------------------------------------------------------------------------
(* tasks.filter_tasks *)

filter_tasks(c, status) ==
    \/ login_required(c, "filter_tasks", <<>>)
    \/ /\ LoggedIn(c)
       /\ LET user_id == SessionUserId(c)
              valid_statuses == {"Pending", "Working", "Done", "All"}
              all_tasks == TasksOf(user_id)
              rows == IF status = "All" THEN all_tasks
                      ELSE {t \in all_tasks : t.status = status}
          IN
          IF status \notin valid_statuses THEN
              resp' = Redirect(c, "filter_tasks", status, "tasks.view_task",
                        <<Flash("Invalid filter option", <<>>, "danger")>>)
          ELSE
              resp' = Render(c, "filter_tasks", status, "tasks.html", <<>>,
                        [tasks |-> rows, counts |-> Counts(all_tasks),
                         current_filter |-> status])
       /\ UNCHANGED <<users, tasks, session, pend>>

----------------------------------------------------------------------------
(* tasks.clear_tasks as two steps, for requests served concurrently: the   *)
(* SELECT, then (other requests may commit here) the DELETE and commit.    *)

clear_tasks_select(c) ==
    \/ login_required(c, "clear_tasks", <<>>)
    \/ /\ LoggedIn(c)
       /\ LET user_id == SessionUserId(c)
              task_count == Cardinality(Matched(user_id, FALSE))
          IN
          IF task_count = 0 THEN
              /\ resp' = Redirect(c, "clear_tasks", <<>>, "tasks.view_task",
                           <<Flash("No tasks to clear", <<>>, "info")>>)
              /\ UNCHANGED pend
          ELSE
              /\ pend' = [pend EXCEPT ![c] =
                     Some([op |-> "clear_tasks", user_id |-> user_id,
                           task_count |-> task_count])]
              /\ UNCHANGED resp
       /\ UNCHANGED <<users, tasks, session>>

clear_tasks_delete(c) ==
    /\ pend[c] # None
    /\ pend[c][1].op = "clear_tasks"
    /\ ClearDelete(c, "clear_tasks", <<>>, pend[c][1].user_id, pend[c][1].task_count, FALSE,
                   "{task_count} task(s) cleared successfully!",
                   "Error clearing tasks. Please try again.")
    /\ pend' = [pend EXCEPT ![c] = None]
    /\ UNCHANGED <<users, session>>

----------------------------------------------------------------------------
(* auth.register as two steps, for requests served concurrently: the       *)
(* validations with the existence SELECT, then (other requests may commit  *)
(* here) the INSERT and commit.  The username column is unique, so the     *)
(* INSERT of a username stored in the meantime raises; the handler's       *)
(* except clause answers every exception of the try block alike.           *)

register_check(c, form) ==
    LET username == strip(form.username)
        password == form.password
        confirm_password == form.confirm_password
        arg == [method |-> "POST", form |-> form]
        back(message) == Redirect(c, "register", arg, "auth.register",
                                  <<Flash(message, <<>>, "danger")>>)
        existing_user == UserByName(username)
        rejection ==
            IF username = <<>> THEN "Username is required"
            ELSE IF password = <<>> THEN "Password is required"
            ELSE IF Len(username) < MinUsernameLen
                THEN "Username must be at least 3 characters long"
            ELSE IF Len(username) > MaxUsernameLen
                THEN "Username must be less than 50 characters"
            ELSE IF Len(password) < MinPasswordLen
                THEN "Password must be at least 6 characters long"
            ELSE IF confirm_password # <<>> /\ password # confirm_password
                THEN "Passwords do not match"
            ELSE IF existing_user # {}
                THEN "Username already exists. Please choose a different one."
            ELSE ""
    IN
    /\ IF LoggedIn(c) THEN
           /\ resp' = Redirect(c, "register", [method |-> "POST", form |-> NoForm],
                               "tasks.view_task", <<>>)
           /\ UNCHANGED pend
       ELSE IF rejection # "" THEN
           /\ resp' = back(rejection)
           /\ UNCHANGED pend
       ELSE
           /\ pend' = [pend EXCEPT ![c] =
                  Some([op |-> "register", form |-> form, username |-> username,
                        password |-> password])]
           /\ UNCHANGED resp
    /\ UNCHANGED <<users, tasks, session>>

register_commit(c) ==
    /\ pend[c] # None
    /\ pend[c][1].op = "register"
    /\ LET p == pend[c][1]
           arg == [method |-> "POST", form |-> p.form]
           error == Redirect(c, "register", arg, "auth.register",
                       <<Flash("An error occurred during registration. Please try again.",
                               <<>>, "danger")>>)
           new_user(salt) == [id |-> NextId(users), username |-> p.username,
                              password |-> generate_password_hash(p.password, salt)]
       IN
       IF UserByName(p.username) # {} THEN
           /\ resp' = error
           /\ UNCHANGED users
       ELSE
           \/ /\ resp' = error
              /\ UNCHANGED users
           \/ /\ NextId(users) <= MaxUsers
              /\ \E salt \in Salts : users' = users \cup {new_user(salt)}
              /\ resp' = Redirect(c, "register", arg, "auth.login",
                           <<Flash("Registration successful! Please login.", <<>>,
                                   "success")>>)
    /\ pend' = [pend EXCEPT ![c] = None]
    /\ UNCHANGED <<tasks, session>>

----------------------------------------------------------------------------
(* tasks.edit_task (POST) as two steps, for requests served concurrently:  *)
(* the ownership SELECT with the title validations, then (other requests   *)
(* may commit here) the assignments and the commit.  The unit of work      *)
(* writes only the attributes whose value differs from the loaded one,     *)
(* with UPDATE ... WHERE id = ?; when nothing differs it writes nothing,   *)
(* and when the UPDATE matches no row it raises, which the handler's       *)
(* except clause answers with the update error.                            *)

(* the attributes of the loaded row that the handler assigns *)
Loaded(t) == [id |-> t.id, title |-> t.title, description |-> t.description]

edit_task_lookup(c, task_id, form) ==
    LET arg == [task_id |-> task_id, method |-> "POST", form |-> form]
        title == strip(form.title)
        description == strip(form.description)
        again(message) == Redirect(c, "edit_task", arg, "tasks.edit_task",
                                   <<Flash(message, <<>>, "danger")>>)
    IN
    \/ login_required(c, "edit_task", <<>>)
    \/ /\ LoggedIn(c)
       /\ LET user_id == SessionUserId(c)
              task == OwnedTask(task_id, user_id)
          IN
          IF task = {} THEN
              /\ resp' = Redirect(c, "edit_task",
                           [task_id |-> task_id, method |-> "POST", form |-> NoForm],
                           "tasks.view_task",
                           <<Flash("Task not found or you do not have permission to edit it",
                                   <<>>, "danger")>>)
              /\ UNCHANGED pend
          ELSE IF title = <<>> THEN
              /\ resp' = again("Task title is required")
              /\ UNCHANGED pend
          ELSE IF Len(title) > MaxTitleLen THEN
              /\ resp' = again("Task title must be less than 200 characters")
              /\ UNCHANGED pend
          ELSE
              /\ pend' = [pend EXCEPT ![c] =
                     Some([op |-> "edit_task", task_id |-> task_id, user_id |-> user_id,
                           task |-> Loaded(CHOOSE x \in task : TRUE), form |-> form,
                           title |-> title,
                           description |-> IF description # <<>> THEN Some(description)
                                           ELSE None])]
              /\ UNCHANGED resp
       /\ UNCHANGED <<users, tasks, session>>

edit_task_commit(c) ==
    /\ pend[c] # None
    /\ pend[c][1].op = "edit_task"
    /\ LET p == pend[c][1]
           arg == [task_id |-> p.task_id, method |-> "POST", form |-> p.form]
           error == Redirect(c, "edit_task", arg, "tasks.edit_task",
                       <<Flash("Error updating task. Please try again.", <<>>, "danger")>>)
           success == Redirect(c, "edit_task", arg, "tasks.view_task",
                         <<Flash("Task updated successfully!", <<>>, "success")>>)
           row == {t \in tasks : t.id = p.task.id}
       IN
       IF p.title = p.task.title /\ p.description = p.task.description THEN
           /\ resp' = success
           /\ UNCHANGED tasks
       ELSE IF row = {} THEN
           /\ resp' = error
           /\ UNCHANGED tasks
       ELSE
           \/ /\ resp' = error
              /\ UNCHANGED tasks
           \/ /\ tasks' = (tasks \ row) \cup
                     {[t EXCEPT !.title = IF p.title # p.task.title THEN p.title ELSE @,
                                !.description = IF p.description # p.task.description
                                                THEN p.description ELSE @] : t \in row}
              /\ resp' = success
    /\ pend' = [pend EXCEPT ![c] = None]
    /\ UNCHANGED <<users, session>>

----------------------------------------------------------------------------
(* Administration outside the request handlers: deleting a user through    *)
(* the ORM, whose User.tasks relationship cascades to the user's tasks,    *)
(* and the reset_db command.  Browsers keep their signed session cookies.  *)

delete_user(user_id) ==
    /\ UserById(user_id) # {}
    /\ users' = users \ UserById(user_id)
    /\ tasks' = tasks \ TasksOf(user_id)
    /\ UNCHANGED <<session, pend, resp>>

reset_db ==
    /\ users # {}
    /\ users' = {}
    /\ tasks' = {}
    /\ UNCHANGED <<session, pend, resp>>

----------------------------------------------------------------------------
(* Specifications *)

Posts(forms) == {[method |-> "POST", form |-> f] : f \in forms}

Gets == {[method |-> "GET", form |-> NoForm]}

(* the browser receives the response; the next request can be handled *)
deliver ==
    /\ resp # Idle
    /\ resp' = Idle
    /\ UNCHANGED <<users, tasks, session, pend>>

(* a browser sends its next request once it has the response to the last *)
Ready(c) == resp = Idle /\ pend[c] = None

(* the handlers that are one step in every specification, for requests    *)
(* of the browsers cs                                                     *)
Handlers(cs) ==
    \/ \E c \in cs, r \in Gets \cup Posts(RegisterForms) :
           Ready(c) /\ register(c, r.method, r.form)
    \/ \E c \in cs, r \in Gets \cup Posts(LoginForms) :
           Ready(c) /\ login(c, r.method, r.form)
    \/ \E c \in cs : Ready(c) /\ logout(c)
    \/ \E c \in cs : Ready(c) /\ profile(c)
    \/ \E c \in cs, r \in Gets \cup Posts(ChangePasswordForms) :
           Ready(c) /\ change_password(c, r.method, r.form)
    \/ \E c \in cs : Ready(c) /\ view_task(c)
    \/ \E c \in cs, f \in TaskForms : Ready(c) /\ add_task(c, f)
    \/ \E c \in cs, id \in TaskIds, r \in Gets \cup Posts(TaskForms) :
           Ready(c) /\ edit_task(c, id, r.method, r.form)
    \/ \E c \in cs, id \in TaskIds : Ready(c) /\ toggle_status(c, id)
    \/ \E c \in cs, id \in TaskIds : Ready(c) /\ delete_task(c, id)
    \/ \E c \in cs : Ready(c) /\ clear_completed(c)
    \/ \E c \in cs, status \in FilterInputs : Ready(c) /\ filter_tasks(c, status)
    \/ deliver

(* one browser: each request is handled to completion before the next one *)
(* is sent                                                                *)
Next ==
    \/ Handlers({1})
    \/ Ready(1) /\ clear_tasks(1)

Spec == Init /\ [][Next]_vars

(* two browsers, whose requests interleave at the database statements of  *)
(* clear_tasks                                                            *)
NextConc ==
    \/ Handlers(Clients)
    \/ \E c \in Clients : Ready(c) /\ clear_tasks_select(c)
    \/ \E c \in Clients : resp = Idle /\ clear_tasks_delete(c)

SpecConc == Init /\ [][NextConc]_vars

(* two browsers, whose requests interleave at the database statements of  *)
(* register                                                               *)
NextRegRace ==
    \/ Handlers(Clients)
    \/ \E c \in Clients : Ready(c) /\ clear_tasks(c)
    \/ \E c \in Clients, f \in RegisterForms : Ready(c) /\ register_check(c, f)
    \/ \E c \in Clients : resp = Idle /\ register_commit(c)

SpecRegRace == Init /\ [][NextRegRace]_vars

(* two browsers: the requests of browser 2 are handled between the        *)
(* database statements of an edit_task of browser 1                       *)
NextEditRace ==
    \/ Handlers(Clients)
    \/ \E c \in Clients : Ready(c) /\ clear_tasks(c)
    \/ \E id \in TaskIds, f \in TaskForms : Ready(1) /\ edit_task_lookup(1, id, f)
    \/ resp = Idle /\ edit_task_commit(1)

SpecEditRace == Init /\ [][NextEditRace]_vars

(* the request handlers together with the administration operations *)
NextAdmin ==
    \/ Next
    \/ \E user_id \in 1..MaxUsers : resp = Idle /\ delete_user(user_id)
    \/ resp = Idle /\ reset_db

SpecAdmin == Init /\ [][NextAdmin]_vars

----------------------------------------------------------------------------
(* Vocabulary of the properties *)

OnlyNotice(r, message) == Len(r.flashes) = 1 /\ r.flashes[1].message = message

NotFoundNotice(op) ==
    IF op = "edit_task" THEN "Task not found or you do not have permission to edit it"
    ELSE IF op = "toggle_status" THEN "Task not found or you do not have permission to modify it"
    ELSE "Task not found or you do not have permission to delete it"

(* the task id a request is addressed to *)
TargetId(r) == IF r.op = "edit_task" THEN r.arg.task_id ELSE r.arg

GuardedOps ==
    {"logout", "profile", "change_password", "view_task", "filter_tasks", "add_task",
     "edit_task", "toggle_status", "delete_task", "clear_tasks", "clear_completed"}

----------------------------------------------------------------------------
(* C1  Ownership isolation.  An edit (GET or POST), toggle or delete       *)
(* request of a logged-in user A addressed to the id of a task owned by    *)
(* another user B is answered with the handler's "not found or no          *)
(* permission" notice and a redirect to the task list, and the task table  *)
(* (hence the task's title, description, status, owner and existence) is   *)
(* unchanged.  A request addressed to an id that no task has is answered   *)
(* in exactly the same way.                                                *)

Refused(r) ==
    /\ r.kind = "redirect"
    /\ r.to = "tasks.view_task"
    /\ OnlyNotice(r, NotFoundNotice(r.op))

OwnershipIsolationStep ==
    (/\ resp'.op \in {"edit_task", "toggle_status", "delete_task"}
     /\ LoggedIn(resp'.client))
    => LET A == SessionUserId(resp'.client)
           foreign == {t \in tasks : t.id = TargetId(resp') /\ t.user_id # A}
           missing == \A t \in tasks : t.id # TargetId(resp')
       IN (foreign # {} \/ missing)
              => /\ Refused(resp')
                 /\ tasks' = tasks
                 /\ users' = users
                 /\ session' = session

C1_OwnershipIsolation == [][OwnershipIsolationStep]_vars

C1_Witness ==
    /\ resp.op \in {"edit_task", "toggle_status", "delete_task"}
    /\ LoggedIn(resp.client)
    /\ Refused(resp)
    /\ \E t \in tasks : t.id = TargetId(resp) /\ t.user_id # SessionUserId(resp.client)

----------------------------------------------------------------------------
(* C2  Access guard.  Every login-required operation requested by a        *)
(* browser whose session has no user_id is answered with a redirect to     *)
(* the login page carrying the warning notice, and users, tasks and the    *)
(* session are left as they were.                                          *)

AccessGuardStep ==
    (resp'.op \in GuardedOps /\ ~LoggedIn(resp'.client))
    => /\ resp'.kind = "redirect"
       /\ resp'.to = "auth.login"
       /\ Len(resp'.flashes) = 1
       /\ resp'.flashes[1].category = "warning"
       /\ resp'.flashes[1].message = "Please login to access this page"
       /\ users' = users
       /\ tasks' = tasks
       /\ session' = session

C2_AccessGuard == [][AccessGuardStep]_vars

C2_Witness ==
    /\ resp.op \in {"delete_task", "toggle_status", "clear_tasks"}
    /\ ~LoggedIn(resp.client)
    /\ resp.to = "auth.login"
    /\ tasks # {}

----------------------------------------------------------------------------
(* C3  Status cycle.  A toggle by the owner that commits maps Pending to   *)
(* Working, Working to Done and Done to Pending; applying the cycle twice  *)
(* more to the committed status gives the status the task started from,    *)
(* and so does Task.toggle_status applied three times.                     *)

Cycle == [Pending |-> "Working", Working |-> "Done", Done |-> "Pending"]

StatusCycleStep ==
    \A t \in tasks :
        (/\ resp'.op = "toggle_status"
         /\ LoggedIn(resp'.client)
         /\ resp'.arg = t.id
         /\ SessionUserId(resp'.client) = t.user_id
         /\ Len(resp'.flashes) = 1)
        => /\ \E n \in tasks' :
                /\ n = [t EXCEPT !.status = Cycle[t.status]]
                /\ toggled(toggled(n.status)) = t.status
           /\ Task_toggle_status(Task_toggle_status(Task_toggle_status(t.status))) = t.status
           /\ Cardinality(tasks') = Cardinality(tasks)

C3_StatusCycle == [][StatusCycleStep]_vars

C3_Witness ==
    /\ resp.op = "toggle_status"
    /\ OnlyNotice(resp, "Task \"{title}\" reopened")
    /\ \E t \in tasks : t.id = resp.arg /\ t.status = "Pending"

----------------------------------------------------------------------------
(* C4  Username uniqueness.  No two stored users have the same username.  *)
(* A registration whose trimmed username is already stored, exactly as    *)
(* written, stores no user; when the form is otherwise acceptable it is   *)
(* answered with the "username already exists" failure.  That failure is  *)
(* given for an exact match only: a username that differs from the stored *)
(* ones in case is not taken for a stored one.                            *)

UsernamesUnique ==
    \A u \in users : \A v \in users : u.username = v.username => u = v

OtherwiseAcceptable(form) ==
    /\ Len(form.password) >= MinPasswordLen
    /\ form.confirm_password \in {<<>>, form.password}

RegisterStoredStep ==
    (/\ resp'.op = "register"
     /\ resp'.arg.method = "POST"
     /\ ~LoggedIn(resp'.client)
     /\ \E u \in users : u.username = strip(resp'.arg.form.username))
    => /\ users' = users
       /\ OtherwiseAcceptable(resp'.arg.form)
              => /\ resp'.kind = "redirect"
                 /\ resp'.to = "auth.register"
                 /\ resp'.flashes =
                        <<Flash("Username already exists. Please choose a different one.",
                                <<>>, "danger")>>

ExistsOnlyIfStoredStep ==
    (/\ resp'.op = "register"
     /\ OnlyNotice(resp', "Username already exists. Please choose a different one."))
    => \E u \in users : u.username = strip(resp'.arg.form.username)

C4_UsernameUniqueness ==
    /\ [](UsernamesUnique)
    /\ [][RegisterStoredStep /\ ExistsOnlyIfStoredStep]_vars

C4_Witness ==
    /\ resp.op = "register"
    /\ OnlyNotice(resp, "Username already exists. Please choose a different one.")
    /\ resp.arg.form.username # strip(resp.arg.form.username)
    /\ Cardinality(users) = 2

----------------------------------------------------------------------------
(* C5  Register-then-authenticate.  A registration that succeeds with     *)
(* username u and password p stores for the trimmed u the hash of p, and  *)
(* only change-password replaces a stored hash.  While the hash of p is   *)
(* stored for u, a login POST from a browser without a session, with the  *)
(* storage answering, with (u, p) sets the session to that user's id and  *)
(* username; with (u, q), q # p and q not empty, it is answered with the  *)
(* invalid-credentials notice and sets no session; with an empty q it is  *)
(* answered with the "required" notice and sets no session.               *)

HashOf(u, p) == u.password = generate_password_hash(p, u.password.salt)

Passwords ==
    {f.password : f \in RegisterForms} \cup {f.new_password : f \in ChangePasswordForms}

RegisterStoresStep ==
    (resp'.op = "register" /\ OnlyNotice(resp', "Registration successful! Please login."))
    => \E n \in users' \ users :
           /\ users' = users \cup {n}
           /\ n.username = strip(resp'.arg.form.username)
           /\ HashOf(n, resp'.arg.form.password)

HashKeptStep ==
    \A u \in users :
        u \in users'
        \/ /\ resp'.op = "change_password"
           /\ LoggedIn(resp'.client)
           /\ SessionUserId(resp'.client) = u.id
           /\ OnlyNotice(resp', "Password changed successfully!")

LoginAnswered ==
    /\ resp'.op = "login"
    /\ resp'.arg.method = "POST"
    /\ ~LoggedIn(resp'.client)
    /\ ~OnlyNotice(resp', "An error occurred during login. Please try again.")

Established(u) ==
    /\ session'[resp'.client] =
           Some([user_id |-> u.id, username |-> u.username, permanent |-> TRUE])
    /\ resp'.kind = "redirect"
    /\ resp'.flashes = <<Flash("Welcome back, {username}!", <<u.username>>, "success")>>

Rejected(message) ==
    /\ OnlyNotice(resp', message)
    /\ resp'.flashes[1].category = "danger"
    /\ session'[resp'.client] = None

(* the login half as the specification words it: any q other than p *)
LoginAsSpecifiedStep ==
    LoginAnswered =>
        \A u \in users, p \in Passwords :
            (u.username = strip(resp'.arg.form.username) /\ HashOf(u, p))
            => IF resp'.arg.form.password = p
               THEN Established(u)
               ELSE Rejected("Invalid username or password")

LoginStep ==
    LoginAnswered =>
        \A u \in users, p \in Passwords :
            (u.username = strip(resp'.arg.form.username) /\ HashOf(u, p))
            => IF resp'.arg.form.password = p THEN Established(u)
               ELSE IF resp'.arg.form.password = <<>>
                   THEN Rejected("Username and password are required")
               ELSE Rejected("Invalid username or password")

C5_Original == [][RegisterStoresStep /\ HashKeptStep /\ LoginAsSpecifiedStep]_vars

C5_RegisterThenAuthenticate == [][RegisterStoresStep /\ HashKeptStep /\ LoginStep]_vars

C5_Witness ==
    /\ resp.op = "login"
    /\ OnlyNotice(resp, "Invalid username or password")
    /\ resp.arg.form.password # <<>>
    /\ \E u \in users : u.username = strip(resp.arg.form.username)

----------------------------------------------------------------------------
(* C6  Status invariant.  Every stored task has status Pending, Working   *)
(* or Done.  A row enters the table only through add_task and then has    *)
(* status Pending; the status of a stored row changes only in a           *)
(* toggle_status request, and then to the next status of the cycle.       *)

StatusInEnum == \A t \in tasks : t.status \in {"Pending", "Working", "Done"}

StatusWrittenStep ==
    \A n \in tasks' :
        LET old == {t \in tasks : t.id = n.id} IN
        IF old = {}
        THEN resp'.op = "add_task" /\ n.status = "Pending"
        ELSE \A t \in old :
                 n.status # t.status
                 => /\ resp'.op = "toggle_status"
                    /\ resp'.arg = t.id
                    /\ n.status = Cycle[t.status]

C6_StatusInvariant == [](StatusInEnum) /\ [][StatusWrittenStep]_vars

C6_Witness ==
    /\ resp.op = "add_task"
    /\ OnlyNotice(resp, "Task added successfully!")
    /\ \E t \in tasks : t.status = "Pending"
    /\ \E t \in tasks : t.status = "Done"

----------------------------------------------------------------------------
(* C7  clear_completed.  A clear_completed request of a logged-in owner   *)
(* that does not end in the storage error removes exactly the owner's     *)
(* Done tasks: no Done task of the owner is left, every other row is      *)
(* still there unchanged, the count in the notice is the number removed,  *)
(* and the statistics of the owner's rows show zero completed tasks.      *)

OwnerRows(rows, o) == {t \in rows : t.user_id = o}

ClearCompletedStep ==
    (/\ resp'.op = "clear_completed"
     /\ LoggedIn(resp'.client)
     /\ ~OnlyNotice(resp', "Error clearing completed tasks. Please try again."))
    => LET o == SessionUserId(resp'.client)
           done == {t \in tasks : t.user_id = o /\ t.status = "Done"}
       IN /\ tasks' = tasks \ done
          /\ \A t \in OwnerRows(tasks', o) : t.status \in {"Pending", "Working"}
          /\ \A t \in tasks : (t.user_id = o /\ t.status # "Done") => t \in tasks'
          /\ Counts(OwnerRows(tasks', o)).completed_tasks = 0
          /\ IF done = {}
             THEN OnlyNotice(resp', "No completed tasks to clear")
             ELSE resp'.flashes = <<Flash("{task_count} completed task(s) cleared!",
                                          <<Cardinality(done)>>, "success")>>

C7_ClearCompleted == [][ClearCompletedStep]_vars

C7_Witness ==
    /\ resp.op = "clear_completed"
    /\ Len(resp.flashes) = 1
    /\ resp.flashes[1].category = "success"
    /\ OwnerRows(tasks, SessionUserId(resp.client)) # {}

----------------------------------------------------------------------------
(* C8  clear_all.  A clear_tasks request of a logged-in owner that        *)
(* reports success has deleted every task of the owner and reports as     *)
(* its count the number of rows it deleted, also when requests of other   *)
(* browsers of the same owner commit between its statements; with no      *)
(* task it reports the informational "No tasks to clear".                 *)

C8_ClearAllCount ==
    (resp.op = "clear_tasks" /\ LoggedIn(resp.client))
    => /\ Len(resp.flashes) = 1
       /\ resp.flashes[1].category = "success"
              => /\ resp.flashes[1].args = <<resp.data.rowcount>>
                 /\ OwnerRows(tasks, SessionUserId(resp.client)) = {}
       /\ resp.flashes[1].message = "No tasks to clear"
              => resp.flashes[1].category = "info"

----------------------------------------------------------------------------
(* C9  Logout.  A logout request of a logged-in browser leaves its        *)
(* session without user_id and username.  A session without them gets     *)
(* them only by a login that is answered with the welcome notice, and     *)
(* until then every login-required request of that browser is redirected  *)
(* to the login page and changes neither users nor tasks.                 *)

LogoutStep ==
    \A c \in Clients :
        /\ (resp'.op = "logout" /\ resp'.client = c /\ LoggedIn(c))
               => /\ session'[c] = None
                  /\ resp'.to = "auth.login"
        /\ ~LoggedIn(c)
               => /\ session'[c] # None
                      => /\ resp'.op = "login"
                         /\ resp'.client = c
                         /\ Len(resp'.flashes) = 1
                         /\ resp'.flashes[1].message = "Welcome back, {username}!"
                  /\ (resp'.op \in GuardedOps /\ resp'.client = c)
                      => /\ resp'.kind = "redirect"
                         /\ resp'.to = "auth.login"
                         /\ session'[c] = None
                         /\ users' = users
                         /\ tasks' = tasks

C9_Logout == [][LogoutStep]_vars

C9_Witness ==
    /\ resp.op = "logout"
    /\ OnlyNotice(resp, "Goodbye, {username}! You have been logged out.")
    /\ session[resp.client] = None
    /\ tasks # {}

----------------------------------------------------------------------------
(* C10  No orphan tasks.  Every stored task's user_id is the id of        *)
(* exactly one stored user, whatever requests were handled and whichever  *)
(* users were deleted.                                                    *)

C10_NoOrphanTasks ==
    \A t \in tasks : Cardinality({u \in users : u.id = t.user_id}) = 1

----------------------------------------------------------------------------
(* C11  Owner filter.  Every task request of a browser logged in as user  *)
(* A (list, filter, add, edit, toggle, delete, clear, clear-completed)    *)
(* shows only rows whose user_id is A, and leaves the rows of every other *)
(* user exactly as they were: none added, none removed, no field changed. *)
(* No request changes the user_id of a stored row.                        *)

TaskOps ==
    {"view_task", "filter_tasks", "add_task", "edit_task", "toggle_status", "delete_task",
     "clear_tasks", "clear_completed"}

(* the task rows a response shows *)
Returned(r) ==
    IF r.kind = "render" /\ r.op \in {"view_task", "filter_tasks"} THEN r.data.tasks
    ELSE IF r.kind = "render" /\ r.op = "edit_task" THEN {r.data.task}
    ELSE {}

NotOwnedBy(rows, o) == {t \in rows : t.user_id # o}

OwnerFilterStep ==
    /\ (resp'.op \in TaskOps /\ LoggedIn(resp'.client))
           => LET A == SessionUserId(resp'.client) IN
              /\ \A t \in Returned(resp') : t.user_id = A /\ t \in tasks
              /\ NotOwnedBy(tasks', A) = NotOwnedBy(tasks, A)
    /\ \A t \in tasks : \A n \in tasks' : n.id = t.id => n.user_id = t.user_id

C11_OwnerFilter == [][OwnerFilterStep]_vars

C11_Witness ==
    /\ resp.op \in {"clear_tasks", "view_task"}
    /\ LoggedIn(resp.client)
    /\ resp.kind = "render" \/ (Len(resp.flashes) = 1 /\ resp.flashes[1].category = "success")
    /\ NotOwnedBy(tasks, SessionUserId(resp.client)) # {}
    /\ resp.op = "view_task" => Returned(resp) # {}

----------------------------------------------------------------------------
(* C12  Concurrent registration.  When a register request that passed the *)
(* existence check commits after another request has stored the same      *)
(* username, no second user is stored for that username and the request   *)
(* is answered with a redirect carrying the "username already exists"     *)
(* notice.                                                                *)

(* browser c commits a registration whose username was stored after its  *)
(* existence check                                                        *)
LostRegisterRace(c) ==
    /\ pend[c] # None
    /\ pend[c][1].op = "register"
    /\ UserByName(pend[c][1].username) # {}
    /\ resp'.op = "register"
    /\ resp'.client = c

ConcurrentRegistrationStep ==
    \A c \in Clients :
        LostRegisterRace(c)
        => /\ users' = users
           /\ Cardinality(UserByName(pend[c][1].username)) = 1
           /\ resp'.kind = "redirect"
           /\ OnlyNotice(resp', "Username already exists. Please choose a different one.")

C12_ConcurrentRegistration == [][ConcurrentRegistrationStep]_vars

----------------------------------------------------------------------------
(* C13  Delete racing an edit.  When the owner's delete of a task commits *)
(* between the ownership lookup and the commit of the owner's edit of     *)
(* that task, the edit leaves the task deleted and is answered with the   *)
(* "not found or no permission" notice and a redirect to the task list.   *)

(* browser c commits an edit of a task that was deleted after its lookup *)
EditAfterDelete(c) ==
    /\ pend[c] # None
    /\ pend[c][1].op = "edit_task"
    /\ OwnedTask(pend[c][1].task_id, pend[c][1].user_id) = {}
    /\ resp'.op = "edit_task"
    /\ resp'.client = c

DeleteRacingEditStep ==
    \A c \in Clients :
        EditAfterDelete(c)
        => /\ tasks' = tasks
           /\ Refused(resp')

C13_DeleteRacingEdit == [][DeleteRacingEditStep]_vars

----------------------------------------------------------------------------
(* C14  change_password.  A change-password POST of a logged-in user      *)
(* fails, with a danger notice and the stored users unchanged, when the   *)
(* current password does not verify against the stored hash, when the new *)
(* password has fewer than 6 characters, or when new and confirm differ   *)
(* (an empty confirm differs).  Otherwise, the storage answering, the     *)
(* user's hash is replaced by a hash of the new password, which the old   *)
(* password does not verify against when the two differ; login then       *)
(* accepts exactly the password whose hash is stored.                     *)

ChangePasswordFailures ==
    {"Current password is incorrect", "New password must be at least 6 characters long",
     "New passwords do not match"}

ChangePasswordStep ==
    (/\ resp'.op = "change_password"
     /\ LoggedIn(resp'.client)
     /\ resp'.arg.method = "POST")
    => LET form == resp'.arg.form
           user == UserById(SessionUserId(resp'.client))
       IN \A u \in user :
           LET wrong_current == ~check_password_hash(u.password, form.current_password)
               too_short == Len(form.new_password) < MinPasswordLen
               mismatch == form.new_password # form.confirm_password
           IN
           IF wrong_current \/ too_short \/ mismatch
           THEN /\ users' = users
                /\ resp'.kind = "redirect"
                /\ resp'.to = "auth.change_password"
                /\ Len(resp'.flashes) = 1
                /\ resp'.flashes[1].category = "danger"
                /\ resp'.flashes[1].message \in ChangePasswordFailures
                /\ resp'.flashes[1].message = "Current password is incorrect" <=> wrong_current
                /\ resp'.flashes[1].message = "New passwords do not match" => mismatch
                /\ resp'.flashes[1].message = "New password must be at least 6 characters long"
                       => too_short
           ELSE \/ /\ OnlyNotice(resp', "An error occurred while changing password")
                   /\ users' = users
                \/ /\ OnlyNotice(resp', "Password changed successfully!")
                   /\ resp'.kind = "redirect"
                   /\ \E n \in users' :
                          /\ users' = (users \ {u}) \cup {n}
                          /\ n.id = u.id
                          /\ n.username = u.username
                          /\ HashOf(n, form.new_password)
                          /\ check_password_hash(n.password, form.new_password)
                          /\ form.new_password # form.current_password
                                 => ~check_password_hash(n.password, form.current_password)

C14_ChangePassword == [][ChangePasswordStep /\ LoginStep]_vars

C14_Witness ==
    /\ resp.op = "change_password"
    /\ OnlyNotice(resp, "Password changed successfully!")
    /\ \E u \in UserById(SessionUserId(resp.client)) :
           /\ HashOf(u, resp.arg.form.new_password)
           /\ ~check_password_hash(u.password, resp.arg.form.current_password)

----------------------------------------------------------------------------
(* C15  Notice on every outcome.  Every response to a mutating request    *)
(* (register, login, change-password and edit as POST; logout, add,       *)
(* toggle, delete, clear, clear-completed) is a redirect that carries     *)
(* exactly one notice, of severity success, info, warning or danger.      *)

MutatingOps ==
    {"register", "login", "logout", "change_password", "add_task", "edit_task",
     "toggle_status", "delete_task", "clear_tasks", "clear_completed"}

Severities == {"success", "info", "warning", "danger"}

(* the response to a request for a form page *)
FormPage(r) ==
    \/ r.op \in {"register", "login"} /\ r.arg.method = "GET"
    \/ /\ r.op \in {"change_password", "edit_task"}
       /\ r.to # "auth.login"
       /\ r.arg.method = "GET"

C15_RedirectWithOneNotice ==
    (resp.op \in MutatingOps /\ ~FormPage(resp))
    => /\ resp.kind = "redirect"
       /\ Len(resp.flashes) = 1
       /\ resp.flashes[1].category \in Severities

----------------------------------------------------------------------------
(* C16  Register blank-input rejection.  A register POST of a browser     *)
(* without a session that meets no storage error stores no user and is    *)
(* answered with "Username is required" when the username is blank after  *)
(* trimming, and with "Password is required" when the password is blank   *)
(* after trimming, whatever its length.                                   *)

RegisterBlankStep ==
    (/\ resp'.op = "register"
     /\ resp'.arg.method = "POST"
     /\ ~LoggedIn(resp'.client)
     /\ ~OnlyNotice(resp', "An error occurred during registration. Please try again."))
    => LET form == resp'.arg.form IN
       /\ strip(form.username) = <<>>
              => users' = users /\ OnlyNotice(resp', "Username is required")
       /\ (strip(form.username) # <<>> /\ strip(form.password) = <<>>)
              => users' = users /\ OnlyNotice(resp', "Password is required")

C16_RegisterBlankRejection == [][RegisterBlankStep]_vars

----------------------------------------------------------------------------
(* C17  Session integrity.  The session of a browser gets a user_id only  *)
(* in a login request of that browser whose trimmed username is stored    *)
(* and whose password verifies against that user's stored hash, and then  *)
(* holds that user's id and username.  It loses them only in a logout     *)
(* request of that browser.  No other request changes a session.          *)

SessionIntegrityStep ==
    \A c \in Clients :
        /\ (~LoggedIn(c) /\ session'[c] # None)
               => /\ resp'.op = "login"
                  /\ resp'.client = c
                  /\ resp'.arg.method = "POST"
                  /\ \E u \in users :
                         /\ u.username = strip(resp'.arg.form.username)
                         /\ check_password_hash(u.password, resp'.arg.form.password)
                         /\ session'[c][1].user_id = u.id
                         /\ session'[c][1].username = u.username
        /\ (LoggedIn(c) /\ session'[c] = None)
               => resp'.op = "logout" /\ resp'.client = c
        /\ (LoggedIn(c) /\ session'[c] # None) => session'[c] = session[c]
        /\ (resp'.client # c \/ resp'.op \notin {"login", "logout"})
               => session'[c] = session[c]

C17_SessionIntegrity == [][SessionIntegrityStep]_vars

C17_Witness ==
    /\ resp.op = "login"
    /\ LoggedIn(resp.client)
    /\ Len(resp.flashes) = 1
    /\ Cardinality(users) = 2
    /\ \E u \in users :
           /\ u.id = SessionUserId(resp.client)
           /\ check_password_hash(u.password, resp.arg.form.password)

====
